---------------------------- MODULE Spec2Model ----------------------------
(***************************************************************************)
(* Model of the ingredient aggregation engine of src/app.py:               *)
(* merge_ingredients, build_final_list, subtract_stock and                 *)
(* add_ingredient_to_catalogue, together with the final-list computation   *)
(* of the script that calls them.                                          *)
(*                                                                         *)
(* Ingredient names and units are Python strings that the code lowercases  *)
(* and concatenates, so they are modelled as sequences of one-character    *)
(* strings.  Section names are only compared for equality and sorted, so   *)
(* they are modelled as strings.  A Python dict is a sequence of entries   *)
(* in insertion order.                                                     *)
(***************************************************************************)
EXTENDS Integers, Sequences, FiniteSets, TLC

VARIABLES
    pc,                       \* position in the computation being modelled
    ingredients_list,         \* argument of merge_ingredients
    merge_result,             \* value returned by merge_ingredients
    session_state,            \* st.session_state: the checked boxes and their quantities
    recipe_by_rayon_final,    \* script variables of the final-list computation
    free_items_final,
    final_list_before_stock,
    stock_items_final,
    final_list,
    catalogue,                \* the catalogue list mutated by add_ingredient_to_catalogue
    cat_before,               \* catalogue before the last call
    cat_log,                  \* the calls made so far: arguments and returned value
    fmt_args,                 \* arguments of format_item
    display                   \* value returned by format_item

vars == <<pc, ingredients_list, merge_result, session_state, recipe_by_rayon_final,
          free_items_final, final_list_before_stock, stock_items_final, final_list,
          catalogue, cat_before, cat_log, fmt_args, display>>

----------------------------------------------------------------------------
(* Bounds of the model *)

MaxIngs == 3       \* longest occurrence list given to merge_ingredients
MaxQty == 2        \* largest quantity of one occurrence / one number_input
MaxChecked == 3    \* most boxes checked at once in the session
MaxCalls == 3      \* most add_ingredient_to_catalogue calls in one run
MaxStock == 3      \* most stock entries of one section given to subtract_stock

----------------------------------------------------------------------------
(* Python strings *)

\* Code points of the characters the model uses (ord).
Code(c) ==
    CASE c = " " -> 32  [] c = "(" -> 40  [] c = ")" -> 41
      [] c = "1" -> 49  [] c = "2" -> 50  [] c = "3" -> 51
      [] c = "A" -> 65  [] c = "B" -> 66  [] c = "I" -> 73
      [] c = "L" -> 76  [] c = "M" -> 77  [] c = "N" -> 78
      [] c = "O" -> 79  [] c = "U" -> 85  [] c = "X" -> 88
      [] c = "_" -> 95
      [] c = "a" -> 97  [] c = "b" -> 98  [] c = "c" -> 99
      [] c = "e" -> 101 [] c = "g" -> 103 [] c = "i" -> 105
      [] c = "k" -> 107 [] c = "l" -> 108 [] c = "m" -> 109
      [] c = "o" -> 111 [] c = "p" -> 112 [] c = "x" -> 120 [] c = "è" -> 232

\* str.lower on one character, then on a string.
LowerChar(c) ==
    CASE c = "A" -> "a" [] c = "B" -> "b" [] c = "I" -> "i" [] c = "L" -> "l"
      [] c = "M" -> "m" [] c = "N" -> "n" [] c = "O" -> "o" [] c = "U" -> "u"
      [] c = "X" -> "x" [] OTHER -> c

Lower(s) == [i \in 1..Len(s) |-> LowerChar(s[i])]

\* Python's < on strings: lexicographic by code point, a proper prefix first.
StrLess(s, t) ==
    \/ \E i \in 1..Len(s) :
          /\ i <= Len(t)
          /\ \A j \in 1..(i - 1) : s[j] = t[j]
          /\ Code(s[i]) < Code(t[i])
    \/ /\ Len(s) < Len(t)
       /\ \A j \in 1..Len(s) : s[j] = t[j]

\* UNITES, src/app.py line 23.
U_piece == <<"p", "i", "è", "c", "e">>
U_g == <<"g">>
U_kg == <<"k", "g">>
U_ml == <<"m", "l">>
U_cl == <<"c", "l">>
U_L == <<"L">>
UNITES == <<U_piece, U_g, U_kg, U_ml, U_cl, U_L>>

\* dict.get(field, default)
DictGet(d, field, default) == IF field \in DOMAIN d THEN d[field] ELSE default

----------------------------------------------------------------------------
(* format_item *)

DigitChar(d) ==
    CASE d = 0 -> "0" [] d = 1 -> "1" [] d = 2 -> "2" [] d = 3 -> "3" [] d = 4 -> "4"
      [] d = 5 -> "5" [] d = 6 -> "6" [] d = 7 -> "7" [] d = 8 -> "8" [] d = 9 -> "9"

\* str(n) as the f-string renders an int: its decimal digits, "-" first when
\* negative.
RECURSIVE IntStr(_)
IntStr(n) ==
    IF n < 0 THEN <<"-">> \o IntStr(0 - n)
    ELSE IF n < 10 THEN <<DigitChar(n)>>
    ELSE IntStr(n \div 10) \o <<DigitChar(n % 10)>>

\* A bug the properties must detect: a quantity of 1 is left out whatever the
\* unit.
format_item_bare_one(nom, quantite, unite) ==
    IF quantite = 1 THEN nom
    ELSE IF unite = U_piece
         THEN nom \o <<" ", "(", "x">> \o IntStr(quantite) \o <<")">>
         ELSE nom \o <<" ", "(">> \o IntStr(quantite) \o unite \o <<")">>

format_item(nom, quantite, unite) ==
    IF unite = U_piece
    THEN IF quantite = 1
         THEN nom
         ELSE nom \o <<" ", "(", "x">> \o IntStr(quantite) \o <<")">>
    ELSE nom \o <<" ", "(">> \o IntStr(quantite) \o unite \o <<")">>

----------------------------------------------------------------------------
(* merge_ingredients *)

\* Position of key k in the dict (sequence of entries), 0 when absent.
KeyIndex(merged, k) ==
    IF \E i \in 1..Len(merged) : merged[i].key = k
    THEN CHOOSE i \in 1..Len(merged) : merged[i].key = k
    ELSE 0

\* merged[k]["quantite"] += qty
AddQuantity(merged, k, qty) ==
    [merged EXCEPT ![KeyIndex(merged, k)].quantite = @ + qty]

\* merged[k] = {"rayon", "nom", "quantite", "unite"} for a key not yet present
NewEntry(merged, k, rayon, nom, qty, unite) ==
    Append(merged, [key |-> k, rayon |-> rayon, nom |-> nom,
                    quantite |-> qty, unite |-> unite])

\* One iteration of the loop over ingredients_list.
MergeStep(merged, ing) ==
    LET nom == ing.nom
        rayon == ing.rayon
        qty == DictGet(ing, "quantite", 1)
        unite == DictGet(ing, "unite", U_piece)
        key == <<Lower(nom), rayon>>
        alt_key == <<Lower(nom) \o <<"_">> \o unite, rayon>>
    IN  IF KeyIndex(merged, key) # 0
        THEN IF merged[KeyIndex(merged, key)].unite = unite
             THEN AddQuantity(merged, key, qty)
             ELSE IF KeyIndex(merged, alt_key) # 0
                  THEN AddQuantity(merged, alt_key, qty)
                  ELSE NewEntry(merged, alt_key, rayon, nom, qty, unite)
        ELSE NewEntry(merged, key, rayon, nom, qty, unite)

RECURSIVE MergeLoop(_, _)
MergeLoop(merged, ings) ==
    IF ings = <<>> THEN merged
    ELSE MergeLoop(MergeStep(merged, Head(ings)), Tail(ings))

\* Position of section r in an ordered mapping section -> items, 0 when absent.
RayonIndex(result, r) ==
    IF \E i \in 1..Len(result) : result[i].rayon = r
    THEN CHOOSE i \in 1..Len(result) : result[i].rayon = r
    ELSE 0

\* The loop over merged.values() that groups the entries by section.
RECURSIVE GroupByRayon(_, _)
GroupByRayon(result, values) ==
    IF values = <<>> THEN result
    ELSE LET data == Head(values)
             item == <<data.nom, data.quantite, data.unite>>
             i == RayonIndex(result, data.rayon)
         IN  GroupByRayon(
                 IF i = 0
                 THEN Append(result, [rayon |-> data.rayon, items |-> <<item>>])
                 ELSE [result EXCEPT ![i].items = Append(@, item)],
                 Tail(values))

\* Stable insertion of item x into a list sorted by lowercased name.
RECURSIVE InsertSorted(_, _)
InsertSorted(sorted, x) ==
    IF sorted = <<>> THEN <<x>>
    ELSE IF StrLess(Lower(x[1]), Lower(Head(sorted)[1]))
         THEN <<x>> \o sorted
         ELSE <<Head(sorted)>> \o InsertSorted(Tail(sorted), x)

\* A bug the properties must detect: the items of a section are left in the
\* order in which their keys were created.
SortItemsSkipped(items) == items

\* list.sort(key=lambda x: x[0].lower()), a stable sort.
RECURSIVE SortItems(_)
SortItems(items) ==
    IF items = <<>> THEN <<>>
    ELSE InsertSorted(SortItems(SubSeq(items, 1, Len(items) - 1)), items[Len(items)])

merge_ingredients(ings) ==
    LET merged == MergeLoop(<<>>, ings)
        result == GroupByRayon(<<>>, merged)
    IN  [i \in 1..Len(result) |->
            [rayon |-> result[i].rayon, items |-> SortItems(result[i].items)]]

----------------------------------------------------------------------------
(* build_final_list *)

\* The characters of a section name, for Python's order on strings.  Only the
\* sections outside rayon_order are ever sorted.
Spell(r) ==
    CASE r = "ANIMAUX" -> <<"A", "N", "I", "M", "A", "U", "X">>
      [] r = "BIO" -> <<"B", "I", "O">>
      [] r = "bio" -> <<"b", "i", "o">>

\* The two loops that flatten a grouping {rayon: [(nom, qty, unite)]} into
\* occurrence records.
RECURSIVE Flatten(_)
Flatten(by_rayon) ==
    IF by_rayon = <<>> THEN <<>>
    ELSE LET g == Head(by_rayon)
         IN  [i \in 1..Len(g.items) |->
                 [nom |-> g.items[i][1], rayon |-> g.rayon,
                  quantite |-> g.items[i][2], unite |-> g.items[i][3]]]
             \o Flatten(Tail(by_rayon))

rayon_order ==
    << "BOULANGERIE", "LÉGUMES", "FRUITS", "AIL & FINES HERBES",
       "CHARCUTERIE", "TRAITEUR", "POISSONNERIE", "BOUCHERIE",
       "SURGELÉS", "FROMAGES", "YAOURTS", "PRODUITS LAITIERS",
       "ÉPICERIE SALÉE", "CUISINE DU MONDE", "ÉPICERIE SUCRÉE",
       "BOISSONS", "NOURRITURE BÉBÉ", "HYGIÈNE & DIVERS" >>

InRayonOrder(r) == \E i \in 1..Len(rayon_order) : rayon_order[i] = r

\* sorted(S) for a set of section names.
RECURSIVE SortedRayons(_)
SortedRayons(S) ==
    IF S = {} THEN <<>>
    ELSE LET m == CHOOSE x \in S : \A y \in S \ {x} : StrLess(Spell(x), Spell(y))
         IN  <<m>> \o SortedRayons(S \ {m})

\* The sections of an ordered mapping, as a set (dict.keys()).
Keys(by_rayon) == {by_rayon[i].rayon : i \in 1..Len(by_rayon)}

\* The elements of seq that are in S, order kept.
RECURSIVE SelectRayons(_, _)
SelectRayons(seq, S) ==
    IF seq = <<>> THEN <<>>
    ELSE IF Head(seq) \in S
         THEN <<Head(seq)>> \o SelectRayons(Tail(seq), S)
         ELSE SelectRayons(Tail(seq), S)

\* A bug the properties must detect: the sections outside rayon_order are
\* appended in the order of the merged grouping, unsorted.
OrderRayonsUnsorted(merged) ==
    LET rest == SelectRayons([i \in 1..Len(merged) |-> merged[i].rayon],
                             {r \in Keys(merged) : ~InRayonOrder(r)})
        order == SelectRayons(rayon_order, Keys(merged)) \o rest
    IN  [i \in 1..Len(order) |-> merged[RayonIndex(merged, order[i])]]

\* The two loops that fill final: rayon_order first, the other sections sorted.
OrderRayons(merged) ==
    LET order == SelectRayons(rayon_order, Keys(merged))
                 \o SortedRayons({r \in Keys(merged) : ~InRayonOrder(r)})
    IN  [i \in 1..Len(order) |-> merged[RayonIndex(merged, order[i])]]

build_final_list(recipe_items_by_rayon, free_items_by_rayon) ==
    OrderRayons(merge_ingredients(Flatten(recipe_items_by_rayon)
                                  \o Flatten(free_items_by_rayon)))

----------------------------------------------------------------------------
(* subtract_stock *)

\* A bug the properties must detect: the quantities of one key accumulate
\* whatever their units, under the unit seen first.
StockStepAccumulating(stock_index, rayon, item) ==
    LET key == <<Lower(item[1]), rayon>>
        entry == [key |-> key, quantite |-> item[2], unite |-> item[3]]
        i == KeyIndex(stock_index, key)
    IN  IF i # 0
        THEN [stock_index EXCEPT ![i].quantite = @ + item[2]]
        ELSE Append(stock_index, entry)

\* One iteration of the loops that index the stock by (nom.lower(), rayon).
StockStep(stock_index, rayon, item) ==
    LET key == <<Lower(item[1]), rayon>>
        entry == [key |-> key, quantite |-> item[2], unite |-> item[3]]
        i == KeyIndex(stock_index, key)
    IN  IF i # 0
        THEN IF stock_index[i].unite = item[3]
             THEN [stock_index EXCEPT ![i].quantite = @ + item[2]]
             ELSE [stock_index EXCEPT ![i] = entry]
        ELSE Append(stock_index, entry)

RECURSIVE StockLoop(_, _)
StockLoop(stock_index, occs) ==
    IF occs = <<>> THEN stock_index
    ELSE StockLoop(StockStep(stock_index, Head(occs).rayon,
                             <<Head(occs).nom, Head(occs).quantite, Head(occs).unite>>),
                   Tail(occs))

StockIndex(stock_items) == StockLoop(<<>>, Flatten(stock_items))

\* A bug the properties must detect: an item exactly covered by the stock is
\* kept with quantity 0 (>= for >).
KeptWhenCovered(stock_index, rayon, item) ==
    LET i == KeyIndex(stock_index, <<Lower(item[1]), rayon>>)
    IN  IF i # 0 /\ stock_index[i].unite = item[3]
        THEN IF item[2] - stock_index[i].quantite >= 0
             THEN << <<item[1], item[2] - stock_index[i].quantite, item[3]>> >>
             ELSE <<>>
        ELSE <<item>>

\* A bug the properties must detect: an item whose stock has another unit is
\* dropped.
KeptOnlyUnstocked(stock_index, rayon, item) ==
    LET i == KeyIndex(stock_index, <<Lower(item[1]), rayon>>)
    IN  IF i # 0
        THEN IF stock_index[i].unite = item[3]
                /\ item[2] - stock_index[i].quantite > 0
             THEN << <<item[1], item[2] - stock_index[i].quantite, item[3]>> >>
             ELSE <<>>
        ELSE <<item>>

\* The body of the inner loop: what one list item appends to new_items.
Kept(stock_index, rayon, item) ==
    LET nom == item[1]
        qty == item[2]
        unite == item[3]
        i == KeyIndex(stock_index, <<Lower(nom), rayon>>)
    IN  IF i # 0
        THEN IF stock_index[i].unite = unite
             THEN IF qty - stock_index[i].quantite > 0
                  THEN << <<nom, qty - stock_index[i].quantite, unite>> >>
                  ELSE <<>>
             ELSE << <<nom, qty, unite>> >>
        ELSE << <<nom, qty, unite>> >>

\* The inner loop over the items of one section: new_items.
RECURSIVE NewItems(_, _, _)
NewItems(stock_index, rayon, items) ==
    IF items = <<>> THEN <<>>
    ELSE Kept(stock_index, rayon, Head(items))
         \o NewItems(stock_index, rayon, Tail(items))

\* A bug the properties must detect: a section is kept when all its items are
\* covered.
RECURSIVE SubtractLoopKeepingEmpty(_, _)
SubtractLoopKeepingEmpty(stock_index, final) ==
    IF final = <<>> THEN <<>>
    ELSE <<[rayon |-> Head(final).rayon,
            items |-> NewItems(stock_index, Head(final).rayon, Head(final).items)]>>
         \o SubtractLoopKeepingEmpty(stock_index, Tail(final))

\* The outer loop over final_list.items(): a section is kept if new_items is
\* not empty.
RECURSIVE SubtractLoop(_, _)
SubtractLoop(stock_index, final) ==
    IF final = <<>> THEN <<>>
    ELSE LET new_items == NewItems(stock_index, Head(final).rayon, Head(final).items)
         IN  (IF new_items # <<>>
              THEN <<[rayon |-> Head(final).rayon, items |-> new_items]>>
              ELSE <<>>)
             \o SubtractLoop(stock_index, Tail(final))

subtract_stock(final, stock_items) == SubtractLoop(StockIndex(stock_items), final)

----------------------------------------------------------------------------
(* add_ingredient_to_catalogue *)

\* Position of the first section named rayon_nom, 0 when there is none.
FirstRayon(cat, rayon_nom) ==
    IF \E i \in 1..Len(cat) : cat[i].nom = rayon_nom
    THEN CHOOSE i \in 1..Len(cat) :
             /\ cat[i].nom = rayon_nom
             /\ \A j \in 1..(i - 1) : cat[j].nom # rayon_nom
    ELSE 0

\* A bug the properties must detect: the membership test compares the names
\* as spelled.
InArticlesAsSpelled(articles, nom_ingredient) ==
    \E k \in 1..Len(articles) : articles[k] = nom_ingredient

\* nom_ingredient.lower() in existing_lower
InArticles(articles, nom_ingredient) ==
    \E k \in 1..Len(articles) : Lower(articles[k]) = Lower(nom_ingredient)

\* Stable insertion of a name into a list sorted by str.lower.
RECURSIVE InsertName(_, _)
InsertName(sorted, x) ==
    IF sorted = <<>> THEN <<x>>
    ELSE IF StrLess(Lower(x), Lower(Head(sorted)))
         THEN <<x>> \o sorted
         ELSE <<Head(sorted)>> \o InsertName(Tail(sorted), x)

\* A bug the properties must detect: the article list is not sorted again
\* after the append.
SortNamesSkipped(articles) == articles

\* list.sort(key=str.lower), a stable sort.
RECURSIVE SortNames(_)
SortNames(articles) ==
    IF articles = <<>> THEN <<>>
    ELSE InsertName(SortNames(SubSeq(articles, 1, Len(articles) - 1)),
                    articles[Len(articles)])

\* The catalogue after the call.
CatalogueAfterAdd(cat, nom_ingredient, rayon_nom) ==
    LET i == FirstRayon(cat, rayon_nom)
    IN  IF i # 0
        THEN IF ~InArticles(cat[i].articles, nom_ingredient)
             THEN [cat EXCEPT ![i].articles = SortNames(Append(@, nom_ingredient))]
             ELSE cat
        ELSE Append(cat, [nom |-> rayon_nom, articles |-> <<nom_ingredient>>])

\* A bug the properties must detect: the call reports an insertion whatever
\* it did.
AddReturnsAlways(cat, nom_ingredient, rayon_nom) == TRUE

\* The value the call returns.
AddReturns(cat, nom_ingredient, rayon_nom) ==
    LET i == FirstRayon(cat, rayon_nom)
    IN  IF i # 0
        THEN ~InArticles(cat[i].articles, nom_ingredient)
        ELSE TRUE

----------------------------------------------------------------------------
(* Inputs of the model *)

N_a == <<"a">>
N_A == <<"A">>
N_b == <<"b">>
N_B == <<"B">>
N_a_g == <<"a", "_", "g">>
N_a_piece == <<"a", "_", "p", "i", "è", "c", "e">>

\* The occurrences merge_ingredients is given: names that differ in case or
\* end in "_" and a unit, three units, and one occurrence shape in a second
\* section.
MergeQuantities == {1, 2}
Occurrences ==
    [nom : {N_a, N_A, N_a_g}, rayon : {"FROMAGES"},
     quantite : MergeQuantities, unite : {U_g, U_kg, U_L}]
    \cup [nom : {N_a}, rayon : {"bio"}, quantite : MergeQuantities, unite : {U_g}]

\* The lists of at most max occurrences.
MergeInputs(max) == UNION {[1..n -> Occurrences] : n \in 0..max}

\* The recipe store (recettes.json) of the final-list computation.
recettes ==
    << [nom |-> "r0",
        ingredients |->
            << [nom |-> N_b, rayon |-> "FROMAGES", quantite |-> 1, unite |-> U_g] >>],
       [nom |-> "r1",
        ingredients |->
            << [nom |-> N_a, rayon |-> "FROMAGES", quantite |-> 1, unite |-> U_g],
               [nom |-> N_a, rayon |-> "FROMAGES", quantite |-> 2, unite |-> U_kg] >>],
       [nom |-> "r2",
        ingredients |->
            << [nom |-> N_A, rayon |-> "FROMAGES", quantite |-> 1, unite |-> U_g],
               [nom |-> N_b, rayon |-> "bio", quantite |-> 2, unite |-> U_piece] >>] >>

\* The catalogue (catalogue.json) of the final-list computation.
CatalogueList ==
    << [nom |-> "FROMAGES", articles |-> <<N_a, N_a_piece>>],
       [nom |-> "bio", articles |-> <<N_b>>],
       [nom |-> "BOULANGERIE", articles |-> <<N_b>>],
       [nom |-> "ANIMAUX", articles |-> <<N_a>>] >>

\* The units offered for a stock article in the model.
StockUnits == {U_piece, U_g}

----------------------------------------------------------------------------
(* The final-list computation of the script *)

\* The widget keys of the session: recette_<nom>, cat_<rayon>_<j> with
\* qty_<rayon>_<j>, stock_<rayon>_<j> with stock_qty_ and stock_unit_.
RecetteKeys == {<<"recette", recettes[i].nom>> : i \in 1..Len(recettes)}
BoxKeys(prefix, cat) ==
    UNION {{<<prefix, cat[i].nom, j - 1>> : j \in 1..Len(cat[i].articles)} :
           i \in 1..Len(cat)}

\* get_recipe_ingredients applied to the recipes checked in the session.
RECURSIVE get_recipe_ingredients(_, _)
get_recipe_ingredients(recs, selected_names) ==
    IF recs = <<>> THEN <<>>
    ELSE (IF Head(recs).nom \in selected_names THEN Head(recs).ingredients ELSE <<>>)
         \o get_recipe_ingredients(Tail(recs), selected_names)

SelectedRecipes(session) ==
    {recettes[i].nom : i \in {k \in 1..Len(recettes) :
                                <<"recette", recettes[k].nom>> \in DOMAIN session}}

\* The checked articles of one section, in the order of its article list.
RECURSIVE CheckedItems(_, _, _, _, _)
CheckedItems(session, prefix, rayon, articles, j) ==
    IF j > Len(articles) THEN <<>>
    ELSE (IF <<prefix, rayon.nom, j - 1>> \in DOMAIN session
          THEN << <<articles[j], session[<<prefix, rayon.nom, j - 1>>].quantite,
                    session[<<prefix, rayon.nom, j - 1>>].unite>> >>
          ELSE <<>>)
         \o CheckedItems(session, prefix, rayon, articles, j + 1)

\* The loop over the catalogue that builds free_items_final ("cat") or
\* stock_items_final ("stock"): a section with a checked article is assigned
\* to its name, in place of what an earlier section of that name had.
RECURSIVE ItemsLoop(_, _, _, _)
ItemsLoop(by_rayon, session, prefix, cat) ==
    IF cat = <<>> THEN by_rayon
    ELSE LET items == CheckedItems(session, prefix, Head(cat), Head(cat).articles, 1)
             i == RayonIndex(by_rayon, Head(cat).nom)
         IN  ItemsLoop(IF items = <<>> THEN by_rayon
                       ELSE IF i # 0 THEN [by_rayon EXCEPT ![i].items = items]
                       ELSE Append(by_rayon, [rayon |-> Head(cat).nom, items |-> items]),
                       session, prefix, Tail(cat))

ItemsByRayon(session, prefix, cat) == ItemsLoop(<<>>, session, prefix, cat)

----------------------------------------------------------------------------
(* Specifications *)

\* The boxes of the session on a catalogue, and the sets of at most MaxChecked
\* checked boxes.
Boxes(cat) == RecetteKeys \cup BoxKeys("cat", cat) \cup BoxKeys("stock", cat)

CheckedSets(cat) == {B \in SUBSET Boxes(cat) : Cardinality(B) <= MaxChecked}

\* The session in which the boxes of B are checked, with quantity q[k] for the
\* article of box k; a free article has unit "pièce", a stock article the unit
\* u[k] selected for it.
SessionOf(B, q, u) ==
    [k \in B |->
        IF k[1] = "recette" THEN TRUE
        ELSE IF k[1] = "cat" THEN [quantite |-> q[k], unite |-> U_piece]
        ELSE [quantite |-> q[k], unite |-> u[k]]]

Idle ==
    /\ ingredients_list = <<>>
    /\ merge_result = <<>>

NoList ==
    /\ session_state = <<>>
    /\ recipe_by_rayon_final = <<>>
    /\ free_items_final = <<>>
    /\ final_list_before_stock = <<>>
    /\ stock_items_final = <<>>
    /\ final_list = <<>>

NoCalls ==
    /\ cat_before = <<>>
    /\ cat_log = <<>>

NoFormat ==
    /\ fmt_args = <<>>
    /\ display = <<>>

\* merge_ingredients applied to one list of occurrences.
InitMerge ==
    /\ pc = "merge"
    /\ ingredients_list \in MergeInputs(MaxIngs)
    /\ merge_result = <<>>
    /\ NoList
    /\ catalogue = <<>>
    /\ NoCalls
    /\ NoFormat

MergeIngredients ==
    /\ pc = "merge"
    /\ merge_result' = merge_ingredients(ingredients_list)
    /\ pc' = "merged"
    /\ UNCHANGED <<ingredients_list, session_state, recipe_by_rayon_final,
                   free_items_final, final_list_before_stock, stock_items_final,
                   final_list, catalogue, cat_before, cat_log, fmt_args, display>>

NextMerge == MergeIngredients

SpecMerge == InitMerge /\ [][NextMerge]_vars

\* One run of the script's final-list computation on a session.
InitList ==
    /\ pc = "recipes"
    /\ Idle
    /\ \E B \in CheckedSets(CatalogueList) :
          \E q \in [{k \in B : k[1] # "recette"} -> 1..MaxQty],
             u \in [{k \in B : k[1] = "stock"} -> StockUnits] :
              session_state = SessionOf(B, q, u)
    /\ recipe_by_rayon_final = <<>>
    /\ free_items_final = <<>>
    /\ final_list_before_stock = <<>>
    /\ stock_items_final = <<>>
    /\ final_list = <<>>
    /\ catalogue = CatalogueList
    /\ NoCalls
    /\ NoFormat

\* recipe_by_rayon_final = merge_ingredients(recipe_ingredients_final)
MergeRecipes ==
    /\ pc = "recipes"
    /\ recipe_by_rayon_final' =
           merge_ingredients(get_recipe_ingredients(recettes, SelectedRecipes(session_state)))
    /\ pc' = "free"
    /\ UNCHANGED <<ingredients_list, merge_result, session_state, free_items_final,
                   final_list_before_stock, stock_items_final, final_list,
                   catalogue, cat_before, cat_log, fmt_args, display>>

\* free_items_final, then final_list_before_stock = build_final_list(...)
BuildFinalList ==
    /\ pc = "free"
    /\ free_items_final' = ItemsByRayon(session_state, "cat", catalogue)
    /\ final_list_before_stock' =
           build_final_list(recipe_by_rayon_final, free_items_final')
    /\ pc' = "stock"
    /\ UNCHANGED <<ingredients_list, merge_result, session_state, recipe_by_rayon_final,
                   stock_items_final, final_list,
                   catalogue, cat_before, cat_log, fmt_args, display>>

\* A bug the properties must detect: the subtraction is made in place, the
\* list given to subtract_stock is the list it returns.
SubtractStockInPlace ==
    /\ pc = "stock"
    /\ stock_items_final' = ItemsByRayon(session_state, "stock", catalogue)
    /\ final_list' = subtract_stock(final_list_before_stock, stock_items_final')
    /\ final_list_before_stock' = final_list'
    /\ pc' = "done"
    /\ UNCHANGED <<ingredients_list, merge_result, session_state, recipe_by_rayon_final,
                   free_items_final,
                   catalogue, cat_before, cat_log, fmt_args, display>>

\* stock_items_final, then final_list = subtract_stock(...)
SubtractStock ==
    /\ pc = "stock"
    /\ stock_items_final' = ItemsByRayon(session_state, "stock", catalogue)
    /\ final_list' = subtract_stock(final_list_before_stock, stock_items_final')
    /\ pc' = "done"
    /\ UNCHANGED <<ingredients_list, merge_result, session_state, recipe_by_rayon_final,
                   free_items_final, final_list_before_stock,
                   catalogue, cat_before, cat_log, fmt_args, display>>

NextList == MergeRecipes \/ BuildFinalList \/ SubtractStock

SpecList == InitList /\ [][NextList]_vars

\* add_ingredient_to_catalogue called on the catalogue, as on saving a recipe.
CallNames == {N_a, N_A, N_B, N_a_g}
CallRayons == {"FROMAGES", "bio", "BIO"}

Catalogues ==
    { <<>>,
      CatalogueList,
      << [nom |-> "FROMAGES", articles |-> <<N_a, N_B>>],
         [nom |-> "bio", articles |-> <<>>] >>,
      << [nom |-> "BIO", articles |-> <<N_B>>],
         [nom |-> "BIO", articles |-> <<N_a>>] >> }

InitCat ==
    /\ pc = "catalogue"
    /\ Idle
    /\ NoList
    /\ catalogue \in Catalogues
    /\ NoCalls
    /\ NoFormat

AddIngredient(nom_ingredient, rayon_nom) ==
    /\ pc = "catalogue"
    /\ Len(cat_log) < MaxCalls
    /\ catalogue' = CatalogueAfterAdd(catalogue, nom_ingredient, rayon_nom)
    /\ cat_before' = catalogue
    /\ cat_log' = Append(cat_log, [nom |-> nom_ingredient, rayon |-> rayon_nom,
                                   ret |-> AddReturns(catalogue, nom_ingredient, rayon_nom)])
    /\ UNCHANGED <<pc, ingredients_list, merge_result, session_state,
                   recipe_by_rayon_final, free_items_final, final_list_before_stock,
                   stock_items_final, final_list, fmt_args, display>>

NextCat == \E n \in CallNames, r \in CallRayons : AddIngredient(n, r)

SpecCat == InitCat /\ [][NextCat]_vars

\* The script run again after a recipe is saved: the handler adds the
\* ingredients of the recipe to the catalogue, then the lists are computed
\* from the session as it was.  The recipe saved is a new one, not selected.
SaveNames == {N_a, N_a_g}
SaveRayons == {"FROMAGES", "bio"}
NewRecipeIngredients ==
    UNION {[1..n -> SaveNames \X SaveRayons] : n \in 1..2}

RECURSIVE AddAll(_, _)
AddAll(cat, ings) ==
    IF ings = <<>> THEN cat
    ELSE AddAll(CatalogueAfterAdd(cat, Head(ings)[1], Head(ings)[2]), Tail(ings))

SaveRecipe(new_recipe_ingredients) ==
    /\ pc = "done"
    /\ catalogue' = AddAll(catalogue, new_recipe_ingredients)
    /\ pc' = "recipes"
    /\ UNCHANGED <<ingredients_list, merge_result, session_state, recipe_by_rayon_final,
                   free_items_final, final_list_before_stock, stock_items_final,
                   final_list, cat_before, cat_log, fmt_args, display>>

InitSelect == InitList

NextSelect ==
    \/ MergeRecipes
    \/ BuildFinalList
    \/ SubtractStock
    \/ \E ings \in NewRecipeIngredients : SaveRecipe(ings)

SpecSelect == InitSelect /\ [][NextSelect]_vars

\* subtract_stock applied to a one-item list and a stock grouping whose section
\* lists several entries, in several spellings and units.
StockNames == {N_a, N_A}
ListNames == {N_a, N_A, N_b}
ListUnits == {U_g, U_kg}
ListQuantities == {1, MaxQty * MaxStock + 1}
StockEntries == StockNames \X (1..MaxQty) \X ListUnits

InitStock ==
    /\ pc = "stockcall"
    /\ Idle
    /\ session_state = <<>>
    /\ recipe_by_rayon_final = <<>>
    /\ free_items_final = <<>>
    /\ \E nom \in ListNames, qty \in ListQuantities, unite \in ListUnits :
          final_list_before_stock =
              <<[rayon |-> "FROMAGES", items |-> << <<nom, qty, unite>> >>]>>
    /\ \E n \in 1..MaxStock : \E items \in [1..n -> StockEntries] :
          stock_items_final = <<[rayon |-> "FROMAGES", items |-> items]>>
    /\ final_list = <<>>
    /\ catalogue = <<>>
    /\ NoCalls
    /\ NoFormat

SubtractStockCall ==
    /\ pc = "stockcall"
    /\ final_list' = subtract_stock(final_list_before_stock, stock_items_final)
    /\ pc' = "stocked"
    /\ UNCHANGED <<ingredients_list, merge_result, session_state, recipe_by_rayon_final,
                   free_items_final, final_list_before_stock, stock_items_final,
                   catalogue, cat_before, cat_log, fmt_args, display>>

NextStock == SubtractStockCall

SpecStock == InitStock /\ [][NextStock]_vars

\* format_item applied to one item, as on displaying or exporting a list.
FormatNames == {N_a, N_A, N_b, N_B, N_a_g, N_a_piece}
FormatQuantities == {1, 2, 3, 10, 12, 450}
FormatUnits == {UNITES[i] : i \in 1..Len(UNITES)}

InitFormat ==
    /\ pc = "format"
    /\ Idle
    /\ NoList
    /\ catalogue = <<>>
    /\ NoCalls
    /\ fmt_args \in [nom : FormatNames, quantite : FormatQuantities, unite : FormatUnits]
    /\ display = <<>>

FormatItem ==
    /\ pc = "format"
    /\ display' = format_item(fmt_args.nom, fmt_args.quantite, fmt_args.unite)
    /\ pc' = "formatted"
    /\ UNCHANGED <<ingredients_list, merge_result, session_state, recipe_by_rayon_final,
                   free_items_final, final_list_before_stock, stock_items_final,
                   final_list, catalogue, cat_before, cat_log, fmt_args>>

NextFormat == FormatItem

SpecFormat == InitFormat /\ [][NextFormat]_vars

----------------------------------------------------------------------------
(* Vocabulary of the properties *)

\* The positions <<section index, item index>> of the entries of a grouping.
Entries(by_rayon) ==
    UNION {{<<i, j>> : j \in 1..Len(by_rayon[i].items)} : i \in 1..Len(by_rayon)}

ItemAt(by_rayon, e) == by_rayon[e[1]].items[e[2]]

\* The entries of section r whose lowercased name is ln, and those among them
\* with unit u.
EntriesNamed(by_rayon, ln, r) ==
    {e \in Entries(by_rayon) :
        by_rayon[e[1]].rayon = r /\ Lower(ItemAt(by_rayon, e)[1]) = ln}

EntriesFor(by_rayon, ln, r, u) ==
    {e \in EntriesNamed(by_rayon, ln, r) : ItemAt(by_rayon, e)[3] = u}

\* The sum of the quantities of the occurrences of (ln, r, u) in a list.
RECURSIVE SumOf(_, _, _, _)
SumOf(occs, ln, r, u) ==
    IF occs = <<>> THEN 0
    ELSE (IF Lower(Head(occs).nom) = ln /\ Head(occs).rayon = r /\ Head(occs).unite = u
          THEN Head(occs).quantite ELSE 0)
         + SumOf(Tail(occs), ln, r, u)

Combos(occs) ==
    {<<Lower(occs[i].nom), occs[i].rayon, occs[i].unite>> : i \in 1..Len(occs)}

UnitsOf(occs, ln, r) == {c[3] : c \in {d \in Combos(occs) : d[1] = ln /\ d[2] = r}}

\* The content of a grouping with the order of the entries forgotten: for each
\* section, how many times each (name, quantity, unit) occurs.
Content(by_rayon) ==
    {<<by_rayon[i].rayon,
       [x \in {by_rayon[i].items[j] : j \in 1..Len(by_rayon[i].items)} |->
           Cardinality({j \in 1..Len(by_rayon[i].items) : by_rayon[i].items[j] = x})]>> :
     i \in 1..Len(by_rayon)}

----------------------------------------------------------------------------
(* Properties of merge_ingredients, under SpecMerge *)

\* C1: merge_ingredients preserves sums.  For every (lowercased name, section,
\* unit) combination of the input, the output holds under that section exactly
\* one entry for that name and unit, whose quantity is the sum of the input
\* quantities of the combination; and every output entry stands for a
\* combination of the input.
MergePreservesSums ==
    pc = "merged" =>
        /\ \A c \in Combos(ingredients_list) :
              LET E == EntriesFor(merge_result, c[1], c[2], c[3])
              IN  /\ Cardinality(E) = 1
                  /\ \A e \in E : ItemAt(merge_result, e)[2]
                                    = SumOf(ingredients_list, c[1], c[2], c[3])
        /\ \A e \in Entries(merge_result) :
              <<Lower(ItemAt(merge_result, e)[1]), merge_result[e[1]].rayon,
                ItemAt(merge_result, e)[3]>> \in Combos(ingredients_list)

\* C2: unit isolation.  For every (lowercased name, section) of the input, the
\* output entries for that name in that section have pairwise different units
\* and are as many as the distinct units of its input occurrences.
UnitIsolation ==
    pc = "merged" =>
        \A c \in Combos(ingredients_list) :
            LET E == EntriesNamed(merge_result, c[1], c[2])
            IN  /\ Cardinality(E) = Cardinality(UnitsOf(ingredients_list, c[1], c[2]))
                /\ \A e, f \in E :
                      e # f => ItemAt(merge_result, e)[3] # ItemAt(merge_result, f)[3]

\* C3: merge_ingredients is commutative in input order.  Every permutation of
\* the input list yields the same sections with the same multiset of
\* (name, quantity, unit) entries in each.
MergeCommutes ==
    pc = "merged" =>
        \A p \in Permutations(1..Len(ingredients_list)) :
            Content(merge_ingredients([i \in 1..Len(ingredients_list) |->
                                          ingredients_list[p[i]]]))
                = Content(merge_result)

----------------------------------------------------------------------------
(* Properties of build_final_list and subtract_stock, under SpecList *)

Built == pc \in {"stock", "done"}

\* C4: build_final_list combines across sources.  Every (lowercased name,
\* section, unit) of the recipe grouping or of the free-choice grouping has
\* exactly one entry in the output, whose quantity is the sum of its quantities
\* in the two groupings (its own quantity when only one grouping has it).
BuildCombinesSources ==
    Built =>
        \A c \in Combos(Flatten(recipe_by_rayon_final))
                  \cup Combos(Flatten(free_items_final)) :
            LET E == EntriesFor(final_list_before_stock, c[1], c[2], c[3])
            IN  /\ Cardinality(E) = 1
                /\ \A e \in E :
                      ItemAt(final_list_before_stock, e)[2]
                        = SumOf(Flatten(recipe_by_rayon_final), c[1], c[2], c[3])
                          + SumOf(Flatten(free_items_final), c[1], c[2], c[3])

\* Position of a section in rayon_order (the section is in it).
CanonIndex(r) == CHOOSE i \in 1..Len(rayon_order) : rayon_order[i] = r

\* C5: section ordering of build_final_list.  The sections of rayon_order come
\* before all others, in the order of rayon_order; the others follow in
\* ascending order of section name.
SectionOrdering ==
    Built =>
        \A i, j \in 1..Len(final_list_before_stock) :
            i < j =>
                LET a == final_list_before_stock[i].rayon
                    b == final_list_before_stock[j].rayon
                IN  /\ InRayonOrder(b) => InRayonOrder(a)
                    /\ InRayonOrder(a) /\ InRayonOrder(b) => CanonIndex(a) < CanonIndex(b)
                    /\ ~InRayonOrder(a) /\ ~InRayonOrder(b) => StrLess(Spell(a), Spell(b))

\* Two sections of rayon_order and two other sections are listed, and the
\* order of the merged grouping had to be changed.
SectionOrderingWitness ==
    /\ Built
    /\ Cardinality({i \in 1..Len(final_list_before_stock) :
                      InRayonOrder(final_list_before_stock[i].rayon)}) >= 2
    /\ Cardinality({i \in 1..Len(final_list_before_stock) :
                      ~InRayonOrder(final_list_before_stock[i].rayon)}) >= 2
    /\ final_list_before_stock #
           merge_ingredients(Flatten(recipe_by_rayon_final) \o Flatten(free_items_final))

\* The shape invariant of a ShoppingList: distinct sections, none with an empty
\* item sequence, no two items of a section with the same (lowercased name,
\* unit).
WellShaped(list) ==
    /\ \A i, j \in 1..Len(list) : i # j => list[i].rayon # list[j].rayon
    /\ \A i \in 1..Len(list) : list[i].items # <<>>
    /\ \A e, f \in Entries(list) :
          (e # f /\ e[1] = f[1]) =>
              \/ Lower(ItemAt(list, e)[1]) # Lower(ItemAt(list, f)[1])
              \/ ItemAt(list, e)[3] # ItemAt(list, f)[3]

\* C6: the output of build_final_list, and the output of subtract_stock on it,
\* satisfy the shape invariant.
ShapeInvariant ==
    /\ Built => WellShaped(final_list_before_stock)
    /\ pc = "done" => WellShaped(final_list)

\* The stock emptied one section of a list of several sections, and a name
\* listed under two units survives.
ShapeWitness ==
    /\ pc = "done"
    /\ Len(final_list) >= 1
    /\ Len(final_list) < Len(final_list_before_stock)
    /\ \E e, f \in Entries(final_list) :
          /\ e # f /\ e[1] = f[1]
          /\ Lower(ItemAt(final_list, e)[1]) = Lower(ItemAt(final_list, f)[1])

\* The stock entry indexed for a list item, <<>> when there is none.
StockFor(nom, rayon) ==
    LET idx == StockIndex(stock_items_final)
        i == KeyIndex(idx, <<Lower(nom), rayon>>)
    IN  IF i = 0 THEN <<>> ELSE idx[i]

\* The items of section r of the final list (none when r is not listed).
FinalItems(r) ==
    IF RayonIndex(final_list, r) = 0 THEN {}
    ELSE LET items == final_list[RayonIndex(final_list, r)].items
         IN  {items[j] : j \in 1..Len(items)}

\* C7: subtract_stock with a unit-matching stock entry.  A list item whose
\* indexed stock entry has its unit is output with quantity minus stock
\* quantity when that is > 0, and is not output at all otherwise.
SubtractMatching ==
    pc = "done" =>
        \A e \in Entries(final_list_before_stock) :
            LET r == final_list_before_stock[e[1]].rayon
                it == ItemAt(final_list_before_stock, e)
                st == StockFor(it[1], r)
            IN  (st # <<>> /\ st.unite = it[3]) =>
                    IF it[2] - st.quantite > 0
                    THEN <<it[1], it[2] - st.quantite, it[3]>> \in FinalItems(r)
                    ELSE \A x \in FinalItems(r) : ~(x[1] = it[1] /\ x[3] = it[3])

\* One item is reduced by a matching stock entry and another is covered by it.
SubtractMatchingWitness ==
    /\ pc = "done"
    /\ \E e, f \in Entries(final_list_before_stock) :
          LET re == final_list_before_stock[e[1]].rayon
              rf == final_list_before_stock[f[1]].rayon
              ie == ItemAt(final_list_before_stock, e)
              if == ItemAt(final_list_before_stock, f)
          IN  /\ StockFor(ie[1], re) # <<>>
              /\ StockFor(ie[1], re).unite = ie[3]
              /\ ie[2] - StockFor(ie[1], re).quantite > 0
              /\ StockFor(if[1], rf) # <<>>
              /\ StockFor(if[1], rf).unite = if[3]
              /\ if[2] - StockFor(if[1], rf).quantite <= 0

\* C8: subtract_stock safety.  Every output quantity is > 0, and a list item
\* with no indexed stock entry, or one of another unit, is output unchanged.
SubtractSafe ==
    pc = "done" =>
        /\ \A e \in Entries(final_list) : ItemAt(final_list, e)[2] > 0
        /\ \A e \in Entries(final_list_before_stock) :
              LET r == final_list_before_stock[e[1]].rayon
                  it == ItemAt(final_list_before_stock, e)
                  st == StockFor(it[1], r)
              IN  (st = <<>> \/ st.unite # it[3]) => it \in FinalItems(r)

\* One item has a stock entry of another unit, another has no stock entry, and
\* a third is covered by its stock.
SubtractSafeWitness ==
    /\ pc = "done"
    /\ \E e, f \in Entries(final_list_before_stock) :
          LET re == final_list_before_stock[e[1]].rayon
              rf == final_list_before_stock[f[1]].rayon
              ie == ItemAt(final_list_before_stock, e)
              if == ItemAt(final_list_before_stock, f)
          IN  /\ StockFor(ie[1], re) # <<>>
              /\ StockFor(ie[1], re).unite # ie[3]
              /\ StockFor(if[1], rf) = <<>>
    /\ Len(Flatten(final_list)) < Len(Flatten(final_list_before_stock))

----------------------------------------------------------------------------
(* Properties of add_ingredient_to_catalogue, under SpecCat *)

\* C9: idempotence of add_ingredient_to_catalogue.  A call whose section is
\* that of the call before it and whose name is the same up to letter case
\* leaves the catalogue as the call before left it and returns False.
AddIdempotent ==
    LET n == Len(cat_log)
    IN  (/\ n >= 2
         /\ cat_log[n].rayon = cat_log[n - 1].rayon
         /\ Lower(cat_log[n].nom) = Lower(cat_log[n - 1].nom)) =>
            /\ catalogue = cat_before
            /\ cat_log[n].ret = FALSE

\* A call inserted a name, and the next call gives the same section and the
\* same name in another letter case.
AddIdempotentWitness ==
    /\ Len(cat_log) >= 2
    /\ cat_log[Len(cat_log) - 1].ret = TRUE
    /\ cat_log[Len(cat_log)].rayon = cat_log[Len(cat_log) - 1].rayon
    /\ cat_log[Len(cat_log)].nom # cat_log[Len(cat_log) - 1].nom
    /\ Lower(cat_log[Len(cat_log)].nom) = Lower(cat_log[Len(cat_log) - 1].nom)

\* Every article list is sorted by lowercased name, with no two articles equal
\* up to letter case.
SortedUnique(cat) ==
    \A i \in 1..Len(cat) :
        \A j, k \in 1..Len(cat[i].articles) :
            j < k => StrLess(Lower(cat[i].articles[j]), Lower(cat[i].articles[k]))

\* Every section of cat is at the same position in later, with all its
\* articles.
NothingRemoved(cat, later) ==
    /\ Len(cat) <= Len(later)
    /\ \A i \in 1..Len(cat) :
          /\ later[i].nom = cat[i].nom
          /\ \A j \in 1..Len(cat[i].articles) :
                \E k \in 1..Len(later[i].articles) :
                    later[i].articles[k] = cat[i].articles[j]

\* C10: the catalogue stays sorted and free of case-insensitive duplicates
\* under any sequence of calls, and no call removes an article.
CatalogueSortedUnique ==
    pc = "catalogue" =>
        /\ SortedUnique(catalogue)
        /\ cat_log # <<>> => NothingRemoved(cat_before, catalogue)

\* A name was inserted before the last article of a section that had two, and
\* a later call found its name already there.
CatalogueSortedUniqueWitness ==
    /\ Len(cat_log) >= 2
    /\ \E n \in 1..Len(cat_log) : cat_log[n].ret = FALSE
    /\ \E i \in 1..Len(catalogue) :
          /\ i <= Len(cat_before)
          /\ Len(catalogue[i].articles) = 3
          /\ Len(cat_before[i].articles) = 2
          /\ catalogue[i].articles[3] = cat_before[i].articles[2]

\* The call inserted nom into section i of before and changed nothing else.
InsertedInto(before, after, i, nom) ==
    /\ Len(after) = Len(before)
    /\ \A k \in 1..Len(before) : k # i => after[k] = before[k]
    /\ after[i].nom = before[i].nom
    /\ Len(after[i].articles) = Len(before[i].articles) + 1
    /\ {after[i].articles[j] : j \in 1..Len(after[i].articles)}
         = {before[i].articles[j] : j \in 1..Len(before[i].articles)} \cup {nom}

\* C11: result flag of add_ingredient_to_catalogue.  The call returns True
\* exactly when it changed the catalogue: the article was inserted into the
\* (first) section of that exact name, or no section had that name and a new
\* section holding only the article was appended, the others unchanged.  It
\* returns False exactly when the name was already in that section up to letter
\* case, and then the whole catalogue is unchanged.
ResultFlag ==
    cat_log # <<>> =>
        LET c == cat_log[Len(cat_log)]
            named == {i \in 1..Len(cat_before) : cat_before[i].nom = c.rayon}
            first == CHOOSE i \in named : \A k \in named : i <= k
            present == /\ named # {}
                       /\ \E j \in 1..Len(cat_before[first].articles) :
                             Lower(cat_before[first].articles[j]) = Lower(c.nom)
        IN  /\ c.ret \in BOOLEAN
            /\ c.ret = TRUE <=> catalogue # cat_before
            /\ c.ret = FALSE <=> present
            /\ c.ret = FALSE => catalogue = cat_before
            /\ (c.ret = TRUE /\ named # {}) =>
                   InsertedInto(cat_before, catalogue, first, c.nom)
            /\ (c.ret = TRUE /\ named = {}) =>
                   catalogue = Append(cat_before,
                                      [nom |-> c.rayon, articles |-> <<c.nom>>])

\* The calls so far inserted into an existing section, appended a new section
\* and found a name already there.
ResultFlagWitness ==
    /\ \E n \in 1..Len(cat_log) : cat_log[n].ret = FALSE
    /\ \E n \in 1..Len(cat_log) :
          cat_log[n].ret = TRUE /\ cat_log[n].rayon = "BIO"
    /\ Len(catalogue) = Len(CatalogueList) + 1
    /\ \E i \in 1..Len(CatalogueList) :
          Len(catalogue[i].articles) > Len(CatalogueList[i].articles)

----------------------------------------------------------------------------
(* Properties of the engine as a whole, under SpecEngine *)

\* The three computations side by side: a run is one of them.
InitEngine == InitMerge \/ InitList \/ InitCat

NextEngine == NextMerge \/ NextList \/ NextCat

SpecEngine == InitEngine /\ [][NextEngine]_vars

\* The items of every section are in non-decreasing order of lowercased name.
ItemsOrdered(by_rayon) ==
    \A i \in 1..Len(by_rayon) :
        \A j, k \in 1..Len(by_rayon[i].items) :
            j < k => ~StrLess(Lower(by_rayon[i].items[k][1]),
                              Lower(by_rayon[i].items[j][1]))

\* The <<section, name, unit>> of the items of a list, in the order of the list.
Lines(list) ==
    [i \in 1..Len(Flatten(list)) |->
        <<Flatten(list)[i].rayon, Flatten(list)[i].nom, Flatten(list)[i].unite>>]

\* s is t with some elements left out, the others in the order of t.
RECURSIVE IsSubsequence(_, _)
IsSubsequence(s, t) ==
    IF s = <<>> THEN TRUE
    ELSE IF t = <<>> THEN FALSE
    ELSE IF Head(s) = Head(t) THEN IsSubsequence(Tail(s), Tail(t))
    ELSE IsSubsequence(s, Tail(t))

\* C12: within-section ordering.  The outputs of merge_ingredients and of
\* build_final_list list the items of every section in non-decreasing order of
\* lowercased name; subtract_stock keeps the relative order of the sections
\* and of the surviving items, so its output is ordered the same way.
WithinSectionOrdering ==
    /\ pc = "merged" => ItemsOrdered(merge_result)
    /\ pc \in {"free", "stock", "done"} => ItemsOrdered(recipe_by_rayon_final)
    /\ Built => ItemsOrdered(final_list_before_stock)
    /\ pc = "done" =>
          /\ IsSubsequence(Lines(final_list), Lines(final_list_before_stock))
          /\ IsSubsequence([i \in 1..Len(final_list) |-> final_list[i].rayon],
                           [i \in 1..Len(final_list_before_stock) |->
                               final_list_before_stock[i].rayon])
          /\ ItemsOrdered(final_list)

\* Sorting changed the order of the merged recipes, and the stock then removed
\* an item of a section of the built list that keeps two items, the first and
\* the last of that section among them.
OrderingWitness ==
    /\ pc = "done"
    /\ recipe_by_rayon_final #
           GroupByRayon(<<>>, MergeLoop(<<>>,
               get_recipe_ingredients(recettes, SelectedRecipes(session_state))))
    /\ \E i \in 1..Len(final_list) :
          LET r == final_list[i].rayon
              b == final_list_before_stock[RayonIndex(final_list_before_stock, r)]
          IN  /\ Len(final_list[i].items) >= 2
              /\ Len(b.items) > Len(final_list[i].items)
              /\ b.items[1][1] = final_list[i].items[1][1]
              /\ b.items[Len(b.items)][1]
                   = final_list[i].items[Len(final_list[i].items)][1]
              /\ StrLess(Lower(b.items[1][1]), Lower(b.items[Len(b.items)][1]))

\* What holds of the results while their arguments stand: each one is what
\* the function returns for the arguments as they are after the call.
PureResults ==
    /\ pc = "merged" => merge_result = merge_ingredients(ingredients_list)
    /\ pc \in {"free", "stock", "done"} =>
           recipe_by_rayon_final =
               merge_ingredients(get_recipe_ingredients(recettes,
                                                        SelectedRecipes(session_state)))
    /\ Built => final_list_before_stock =
                    build_final_list(recipe_by_rayon_final, free_items_final)
    /\ pc = "done" => final_list =
                          subtract_stock(final_list_before_stock, stock_items_final)

\* What a step leaves alone: the arguments of the function it calls, and the
\* catalogue unless the step is a call of add_ingredient_to_catalogue that
\* returns True.
PureSteps ==
    /\ pc = "merge" => ingredients_list' = ingredients_list
    /\ pc = "recipes" => session_state' = session_state
    /\ pc = "free" => /\ recipe_by_rayon_final' = recipe_by_rayon_final
                      /\ session_state' = session_state
    /\ pc = "stock" => /\ final_list_before_stock' = final_list_before_stock
                       /\ recipe_by_rayon_final' = recipe_by_rayon_final
                       /\ free_items_final' = free_items_final
    /\ pc # "catalogue" => catalogue' = catalogue
    /\ pc = "catalogue" =>
           (cat_log'[Len(cat_log')].ret = TRUE <=> catalogue' # catalogue)

----------------------------------------------------------------------------
(* Properties of format_item, under SpecFormat *)

----------------------------------------------------------------------------
(* Properties of the stock index, under SpecStock *)

\* The stock entries of one key, in the order subtract_stock reads them.
StockEntriesOf(ln, r) ==
    SelectSeq(Flatten(stock_items_final),
              LAMBDA o : Lower(o.nom) = ln /\ o.rayon = r)

\* What is recorded after the entries es of one key: the unit of the last one
\* and the sum of the entries since the unit last changed.
RecordedUnit(es) == es[Len(es)].unite

RecordedQuantity(es) ==
    LET start == CHOOSE k \in 1..Len(es) :
                     /\ \A m \in k..Len(es) : es[m].unite = RecordedUnit(es)
                     /\ k > 1 => es[k - 1].unite # RecordedUnit(es)
    IN  SumOf(SubSeq(es, start, Len(es)), Lower(es[1].nom), es[1].rayon, RecordedUnit(es))

\* C14: the stock entries of one (lowercased name, section) key are read in
\* order; an entry with the recorded unit adds to the recorded quantity, an
\* entry with another unit replaces quantity and unit.  So after the last entry
\* the index holds the unit of the last entry and the sum of the entries since
\* the unit last changed, and that quantity is what a list item of that unit
\* loses; an item of another unit, or without stock, is kept as it is.
LastWriteWins ==
    pc = "stocked" =>
        LET r == final_list_before_stock[1].rayon
            item == final_list_before_stock[1].items[1]
            es == StockEntriesOf(Lower(item[1]), r)
            idx == StockIndex(stock_items_final)
        IN  /\ es # <<>> =>
                 /\ StockFor(item[1], r).unite = RecordedUnit(es)
                 /\ StockFor(item[1], r).quantite = RecordedQuantity(es)
                 /\ \A k \in 1..Len(idx) :
                        idx[k].key = <<Lower(item[1]), r>> => idx[k] = StockFor(item[1], r)
            /\ (es # <<>> /\ item[3] = RecordedUnit(es)
                          /\ item[2] > RecordedQuantity(es)) =>
                   final_list = <<[rayon |-> r,
                                   items |-> << <<item[1], item[2] - RecordedQuantity(es),
                                                  item[3]>> >>]>>
            /\ (es # <<>> /\ item[3] = RecordedUnit(es)
                          /\ item[2] <= RecordedQuantity(es)) => final_list = <<>>
            /\ (es = <<>> \/ item[3] # RecordedUnit(es)) =>
                   final_list = final_list_before_stock

\* Two units of stock in grams are discarded by an entry in kilograms; the
\* next entry in kilograms adds to it, and the item loses their sum.
LastWriteWinsWitness ==
    /\ pc = "stocked"
    /\ stock_items_final =
           <<[rayon |-> "FROMAGES",
              items |-> << <<N_a, 2, U_g>>, <<N_A, 1, U_kg>>, <<N_a, 2, U_kg>> >>]>>
    /\ final_list_before_stock =
           <<[rayon |-> "FROMAGES",
              items |-> << <<N_a, MaxQty * MaxStock + 1, U_kg>> >>]>>
    /\ final_list =
           <<[rayon |-> "FROMAGES",
              items |-> << <<N_a, MaxQty * MaxStock + 1 - 3, U_kg>> >>]>>

----------------------------------------------------------------------------
(* Properties of the selections, under SpecSelect *)

\* The articles of a grouping: (section, name) pairs.
ArticlesOf(by_rayon) ==
    {<<Flatten(by_rayon)[i].rayon, Flatten(by_rayon)[i].nom>> :
         i \in 1..Len(Flatten(by_rayon))}

\* C16: the boxes checked in the session designate the same articles after
\* add_ingredient_to_catalogue has inserted other articles into their
\* sections: the free-choice and stock groupings computed for the final list
\* contain the article names they contained with the catalogue as it was
\* when the boxes were checked.
SelectionStable ==
    pc = "done" =>
        /\ ArticlesOf(free_items_final) =
               ArticlesOf(ItemsByRayon(session_state, "cat", CatalogueList))
        /\ ArticlesOf(stock_items_final) =
               ArticlesOf(ItemsByRayon(session_state, "stock", CatalogueList))

============================================================================
